---- MODULE Spec2Model ----
(***************************************************************************)
(* Model of fix-icons.py: a script that rewrites, in every .html file of   *)
(* the directory concepts-advance, the long path data of heading icons.    *)
(* Texts are sequences of one-character strings, so that the regular       *)
(* expression and the substitution are computed character by character.    *)
(***************************************************************************)
EXTENDS Integers, Sequences, FiniteSets, TLC

(***************************************************************************)
(* Bounds of the model.                                                    *)
(***************************************************************************)
\* number of runs of the script in succession
MaxRuns == 2
\* path data lengths range over MinPathLen - MaxDelta .. MinPathLen + MaxDelta
MaxDelta == 1
\* number of extra fragments appended to the first fragment of a document
MaxMore == 1
\* number of characters a failing write may have put in the file
MaxPartial == 1

(***************************************************************************)
(* The two icons (lines 6-7).                                              *)
(***************************************************************************)
CHECKMARK == <<"M","9"," ","1","2",".","7","5","L","1","1",".","2","5"," ","1","5"," ","1","5"," ","9",".","7","5","M","2","1"," ","1","2","a","9"," ","9"," ","0"," ","1"," ","1","-","1","8"," ","0"," ","9"," ","9"," ","0"," ","0"," ","1"," ","1","8"," ","0","z">>

ALERT == <<"M","1","2"," ","9","v","3",".","7","5","m","9","-",".","7","5","a","9"," ","9"," ","0"," ","1"," ","1","-","1","8"," ","0"," ","9"," ","9"," ","0"," ","0"," ","1"," ","1","8"," ","0","z","m","-","9"," ","3",".","7","5","h",".","0","0","8","v",".","0","0","8","H","1","2","v","-",".","0","0","8","z">>

(***************************************************************************)
(* Text helpers: str.lower() and the `in` operator on strings.             *)
(***************************************************************************)
UpperCase == <<"A","B","C","D","E","F","G","H","I","J","K","L","M","N","O","P","Q","R","S","T","U","V","W","X","Y","Z">>

LowerCase == <<"a","b","c","d","e","f","g","h","i","j","k","l","m","n","o","p","q","r","s","t","u","v","w","x","y","z">>

LowerChar(c) ==
    IF \E k \in 1..Len(UpperCase) : UpperCase[k] = c
    THEN LowerCase[CHOOSE k \in 1..Len(UpperCase) : UpperCase[k] = c]
    ELSE c

\* s.lower()
lower(s) == [k \in 1..Len(s) |-> LowerChar(s[k])]

\* the literal lit occurs in s at index i
HasAt(s, i, lit) ==
    /\ i >= 1
    /\ i + Len(lit) - 1 <= Len(s)
    /\ \A k \in 1..Len(lit) : s[i + k - 1] = lit[k]

\* lit in s
Contains(s, lit) == \E i \in 1..(Len(s) - Len(lit) + 1) : HasAt(s, i, lit)

\* the words of line 23
TriggerWords ==
    { <<"d","i","s","a","d","v","a","n","t","a","g","e">>,
      <<"c","h","a","l","l","e","n","g","e">>,
      <<"p","i","t","f","a","l","l">>,
      <<"b","o","t","t","l","e","n","e","c","k">> }

(***************************************************************************)
(* The pattern of line 31:                                                 *)
(*   (<h2><svg[^>]*><path[^>]*d=")([^"]{80,})(" /></svg>)                  *)
(***************************************************************************)
LitOpen == <<"<","h","2",">","<","s","v","g">>

LitPath == <<"<","p","a","t","h">>

LitD == <<"d","=","\"">>

LitEnd == <<"\""," ","/",">","<","/","s","v","g",">">>

\* the lower bound of the quantifier {80,}
MinPathLen == 80

\* Op applied to the value of v (v is evaluated once)
With(v, Op(_)) == CHOOSE r \in { Op(x) : x \in {v} } : TRUE

\* the least element of the set S of indices, or d when S is empty
MinOr(S, d) ==
    With(S, LAMBDA T : IF T = {} THEN d ELSE CHOOSE x \in T : \A y \in T : x <= y)

\* index of the first ">" at or after p, or Len(s) + 1: where [^>]* must stop
NextGt(s, p) == MinOr({ j \in p..Len(s) : s[j] = ">" }, Len(s) + 1)

\* index of the first quote at or after p, or Len(s) + 1: where [^"]* must stop
NextQuote(s, p) == MinOr({ j \in p..Len(s) : s[j] = "\"" }, Len(s) + 1)

\* the group 3 of a match whose closing quote is at q ends with the literal
SuffixEndWide(s, q) == NextQuote(s, q + Len(LitEnd)) - 1

SuffixEnd(s, q) == q + Len(LitEnd) - 1

NoMatch == [ok |-> FALSE, s |-> 0, g1 |-> 0, g2 |-> 0, e |-> 0]

\* d=" at k, then [^"]{80,} (greedy: up to the next quote, at least MinPathLen
\* long), then the closing literal
PathOk(s, k) ==
    /\ HasAt(s, k, LitD)
    /\ With(NextQuote(s, k + Len(LitD)),
            LAMBDA q : /\ q - (k + Len(LitD)) >= MinPathLen
                       /\ HasAt(s, q, LitEnd))

\* the rest of the pattern after <h2><svg[^>]*>, whose ">" is at gt
MatchPath(s, i, gt) ==
    IF gt > Len(s) \/ ~HasAt(s, gt + 1, LitPath) THEN NoMatch
    ELSE \* [^>]* is greedy: the last d=" before the next ">" that lets the
         \* rest match is tried first
         With({ k \in (gt + 1 + Len(LitPath))..NextGt(s, gt + 1 + Len(LitPath)) :
                  PathOk(s, k) },
              LAMBDA ks :
                IF ks = {} THEN NoMatch
                ELSE With(CHOOSE x \in ks : \A y \in ks : y <= x,
                          LAMBDA k :
                            With(NextQuote(s, k + Len(LitD)),
                                 LAMBDA q :
                                   [ok |-> TRUE, s |-> i,
                                    g1 |-> k + Len(LitD) - 1,
                                    g2 |-> q - 1, e |-> SuffixEnd(s, q)])))

\* pattern.match(s, i): the match that starts at index i, if any; g1, g2, e
\* are the last indices of the groups 1, 2, 3.
MatchAt(s, i) ==
    IF ~HasAt(s, i, LitOpen) THEN NoMatch
    ELSE With(NextGt(s, i + Len(LitOpen)), LAMBDA gt : MatchPath(s, i, gt))

\* the first index >= i where the pattern's first literal occurs
NextStart(s, i) == MinOr({ j \in i..Len(s) : HasAt(s, j, LitOpen) }, Len(s) + 1)

\* a callback that loses the prefix
replace_complex_icon_Drop(svg_start, path_data, svg_end) ==
    (IF \E low \in {lower(svg_end)} : \E word \in TriggerWords : Contains(low, word)
     THEN ALERT ELSE CHECKMARK) \o svg_end

\* a callback that puts the icon before the old path data, not in its place
replace_complex_icon_Keep(svg_start, path_data, svg_end) ==
    svg_start \o CHECKMARK \o path_data \o svg_end

\* the callback of re.sub (lines 17-28) on the three groups
replace_complex_icon(svg_start, path_data, svg_end) ==
    LET new_path == IF \E low \in {lower(svg_end)} :
                          \E word \in TriggerWords : Contains(low, word)
                    THEN ALERT
                    ELSE CHECKMARK
    IN  svg_start \o new_path \o svg_end

\* re.sub(pattern, replace_complex_icon, s): from index i on, the text is
\* copied up to the next match, the match is replaced by the callback's
\* result, and the scan goes on after the match; n counts the calls of the
\* callback.
sub(s) ==
    LET SubFrom[i \in 1..(Len(s) + 1)] ==
          With(NextStart(s, i), LAMBDA j :
            IF j > Len(s) THEN [out |-> SubSeq(s, i, Len(s)), n |-> 0]
            ELSE With(MatchAt(s, j), LAMBDA m :
              IF m.ok
              THEN With(SubFrom[m.e + 1], LAMBDA rest :
                     [out |-> SubSeq(s, i, j - 1)
                              \o replace_complex_icon(SubSeq(s, m.s, m.g1),
                                                      SubSeq(s, m.g1 + 1, m.g2),
                                                      SubSeq(s, m.g2 + 1, m.e))
                              \o rest.out,
                      n |-> rest.n + 1])
              ELSE With(SubFrom[j + 1], LAMBDA rest :
                     [out |-> SubSeq(s, i, j) \o rest.out, n |-> rest.n])))
    IN  SubFrom[1]

\* re.findall(pattern, s): the non-overlapping matches, left to right
findall(s) ==
    LET FindAllFrom[i \in 1..(Len(s) + 1)] ==
          With(NextStart(s, i), LAMBDA j :
            IF j > Len(s) THEN <<>>
            ELSE With(MatchAt(s, j), LAMBDA m :
              IF m.ok THEN <<m>> \o FindAllFrom[m.e + 1]
              ELSE FindAllFrom[j + 1]))
    IN  FindAllFrom[1]

(***************************************************************************)
(* The directory and its documents.  A document is a sequence of           *)
(* fragments  open <svg attr><path d="data" /></svg> tail ; layout records *)
(* how each file was built, so that a fragment can be found again.         *)
(***************************************************************************)
Rep(c, n) == [k \in 1..n |-> c]

PathLens == (MinPathLen - MaxDelta)..(MinPathLen + MaxDelta)

H2 == <<"<","h","2",">">>

H2Space == <<"<","h","2",">"," ">>

H3 == <<"<","h","3",">">>

AttrX == <<" ","x","=","\"","1","\"">>

PathPlain == <<" ">>

\* a path element with a first, long d attribute before the last one
PathTwoD == <<" ","d","=","\"">> \o Rep("B", MinPathLen + MaxDelta) \o <<"\""," ">>

TailPitfall == <<"<","s","p","a","n",">","P","i","t","f","a","l","l","<","/","s","p","a","n",">","<","/","h","2",">">>

PlainText == <<"<","p",">","n","o"," ","i","c","o","n","s","<","/","p",">">>

Frag(open, attr, pattr, data, tail) ==
    [open |-> open, attr |-> attr, pattr |-> pattr, data |-> data, tail |-> tail]

RenderWith(f, data) ==
    f.open \o <<"<","s","v","g">> \o f.attr \o <<">">> \o LitPath \o f.pattr
           \o LitD \o data \o LitEnd \o f.tail

Render(f) == RenderWith(f, f.data)

RECURSIVE RenderAll(_)
RenderAll(fs) == IF fs = <<>> THEN <<>> ELSE Render(Head(fs)) \o RenderAll(Tail(fs))

LongData == Rep("A", MinPathLen + MaxDelta)

FirstFrags ==
    { Frag(o[1], o[2], PathPlain, Rep("A", n), t) :
        o \in { <<H2, <<>> >>, <<H2, AttrX>>, <<H2Space, <<>> >>, <<H3, <<>> >> },
        n \in PathLens,
        t \in { <<>>, TailPitfall } }
    \cup { Frag(H2, <<>>, PathPlain, CHECKMARK, <<>>),
           Frag(H2, <<>>, PathPlain, ALERT, TailPitfall),
           Frag(H2, <<>>, PathTwoD, LongData, <<>>),
           Frag(PlainText, <<>>, PathPlain, <<>>, <<>>) }

MoreFrags ==
    { Frag(H2, AttrX, PathPlain, LongData, TailPitfall),
      Frag(H3, <<>>, PathPlain, LongData, <<>>) }

MoreSeqs == UNION { [1..n -> MoreFrags] : n \in 0..MaxMore }

LayoutsA == { <<f>> \o m : f \in FirstFrags, m \in MoreSeqs }

LayoutsB ==
    { << Frag(PlainText, <<>>, PathPlain, <<>>, <<>>) >>,
      << Frag(H2, AttrX, PathPlain, Rep("A", MinPathLen), <<>>) >>,
      << Frag(H2, AttrX, PathPlain, LongData, TailPitfall) >> }

LayoutsT == { << Frag(H2, <<>>, PathPlain, LongData, <<>>) >> }

FileA == [stem |-> "a", ext |-> "html"]

FileB == [stem |-> "b", ext |-> "html"]

FileT == [stem |-> "notes", ext |-> "txt"]

\* the entries of concepts_dir (line 9)
Entries == { FileA, FileB, FileT }

\* concepts_dir.glob('*.html') (line 11): the entries it yields
glob == { f \in Entries : f.ext = "html" }

Orders(S) ==
    { p \in [1..Cardinality(S) -> S] : \A x, y \in 1..Cardinality(S) : p[x] = p[y] => x = y }

None == [stem |-> "", ext |-> ""]

VARIABLES
    disk,       \* the text of every entry of the directory
    layout,     \* how each text was built (constant)
    disk0,      \* the texts before the first run
    start,      \* the texts when the current run started
    run,        \* the number of the current run
    pc,         \* the position of the script
    pending,    \* the files the listing has not yielded yet
    cur,        \* html_file
    content,    \* content
    original,   \* original
    out,        \* the lines printed by the current run
    wrote,      \* the calls of write_text of the current run, per file
    fault       \* the fault that ended the run, if any

vars == <<disk, layout, disk0, start, run, pc, pending, cur, content, original,
          out, wrote, fault>>

Init ==
    /\ layout \in { [f \in Entries |-> IF f = FileA THEN a ELSE IF f = FileB THEN b ELSE t] :
                      a \in LayoutsA, b \in LayoutsB, t \in LayoutsT }
    /\ disk = [f \in Entries |-> RenderAll(layout[f])]
    /\ disk0 = disk
    /\ start = disk
    /\ run = 1
    /\ pc = "start"
    /\ pending = <<>>
    /\ cur = None
    /\ content = <<>>
    /\ original = <<>>
    /\ out = <<>>
    /\ wrote = [f \in Entries |-> 0]
    /\ fault = "none"

\* line 11: the listing is opened; its order is any order of the .html files
Glob ==
    /\ pc = "start"
    /\ \E p \in Orders(glob) : pending' = p
    /\ pc' = "loop"
    /\ UNCHANGED <<disk, layout, disk0, start, run, cur, content, original, out, wrote, fault>>

\* a loop that loses the file after the one it takes
NextFileSkip ==
    /\ pc = "loop"
    /\ pending # <<>>
    /\ cur' = Head(pending)
    /\ pending' = IF Len(pending) > 1 THEN Tail(Tail(pending)) ELSE Tail(pending)
    /\ pc' = "read"
    /\ UNCHANGED <<disk, layout, disk0, start, run, content, original, out, wrote, fault>>

\* line 11: the loop takes the next file
NextFile ==
    /\ pc = "loop"
    /\ pending # <<>>
    /\ cur' = Head(pending)
    /\ pending' = Tail(pending)
    /\ pc' = "read"
    /\ UNCHANGED <<disk, layout, disk0, start, run, content, original, out, wrote, fault>>

\* lines 12-13: read_text, and the copy kept in original
ReadText ==
    /\ pc = "read"
    /\ content' = disk[cur]
    /\ original' = disk[cur]
    /\ pc' = "sub"
    /\ UNCHANGED <<disk, layout, disk0, start, run, pending, cur, out, wrote, fault>>

\* a fault that is swallowed: the loop goes on with the next file
ReadFaultSkip ==
    /\ pc = "read"
    /\ pc' = "loop"
    /\ fault' = "read"
    /\ UNCHANGED <<disk, layout, disk0, start, run, pending, cur, content, original, out, wrote>>

\* line 12: read_text raises (unreadable file, invalid UTF-8)
ReadFault ==
    /\ pc = "read"
    /\ pc' = "aborted"
    /\ fault' = "read"
    /\ UNCHANGED <<disk, layout, disk0, start, run, pending, cur, content, original, out, wrote>>

\* line 32
Substitute ==
    /\ pc = "sub"
    /\ content' = sub(content).out
    /\ pc' = "cmp"
    /\ UNCHANGED <<disk, layout, disk0, start, run, pending, cur, original, out, wrote, fault>>

\* the test of line 34
ShouldWriteAlways(c, o) == TRUE

ShouldWrite(c, o) == c # o

\* lines 34, 38-39: nothing changed, the line is printed
NoChanges ==
    /\ pc = "cmp"
    /\ ~ShouldWrite(content, original)
    /\ out' = Append(out, [kind |-> "nochange", n |-> 0, name |-> cur])
    /\ pc' = "loop"
    /\ UNCHANGED <<disk, layout, disk0, start, run, pending, cur, content, original, wrote, fault>>

\* lines 34-35: write_text opens the file for writing, which truncates it
WriteOpen ==
    /\ pc = "cmp"
    /\ ShouldWrite(content, original)
    /\ disk' = [disk EXCEPT ![cur] = <<>>]
    /\ wrote' = [wrote EXCEPT ![cur] = @ + 1]
    /\ pc' = "write"
    /\ UNCHANGED <<layout, disk0, start, run, pending, cur, content, original, out, fault>>

\* line 35: write_text cannot open the file (no write permission)
WriteOpenFault ==
    /\ pc = "cmp"
    /\ ShouldWrite(content, original)
    /\ wrote' = [wrote EXCEPT ![cur] = @ + 1]
    /\ pc' = "aborted"
    /\ fault' = "open"
    /\ UNCHANGED <<disk, layout, disk0, start, run, pending, cur, content, original, out>>

\* line 35: write_text writes the whole content and closes the file
WriteData ==
    /\ pc = "write"
    /\ disk' = [disk EXCEPT ![cur] = content]
    /\ pc' = "count"
    /\ UNCHANGED <<layout, disk0, start, run, pending, cur, content, original, out, wrote, fault>>

\* line 35: the write raises after the file was opened (device full, I/O
\* error): the file holds none or only the first characters of the content
WriteDataFault ==
    /\ pc = "write"
    /\ \E k \in 0..MaxPartial :
          /\ k < Len(content)
          /\ disk' = [disk EXCEPT ![cur] = SubSeq(content, 1, k)]
    /\ pc' = "aborted"
    /\ fault' = "write"
    /\ UNCHANGED <<layout, disk0, start, run, pending, cur, content, original, out, wrote>>

\* the text that line 36 scans again
RescanNew(c, o) == c

Rescan(c, o) == o

\* lines 36-37
ReportFixed ==
    /\ pc = "count"
    /\ LET changes == Len(findall(Rescan(content, original)))
       IN  out' = Append(out, [kind |-> "fixed", n |-> changes, name |-> cur])
    /\ pc' = "loop"
    /\ UNCHANGED <<disk, layout, disk0, start, run, pending, cur, content, original, wrote, fault>>

\* line 41
Done ==
    /\ pc = "loop"
    /\ pending = <<>>
    /\ out' = Append(out, [kind |-> "done", n |-> 0, name |-> None])
    /\ pc' = "done"
    /\ UNCHANGED <<disk, layout, disk0, start, run, pending, cur, content, original, wrote, fault>>

\* the script is run again on the same directory
Rerun ==
    /\ pc = "done"
    /\ run < MaxRuns
    /\ run' = run + 1
    /\ start' = disk
    /\ pc' = "start"
    /\ pending' = <<>>
    /\ cur' = None
    /\ content' = <<>>
    /\ original' = <<>>
    /\ out' = <<>>
    /\ wrote' = [f \in Entries |-> 0]
    /\ UNCHANGED <<disk, layout, disk0, fault>>

\* the steps of a run that no fault interrupts
Step ==
    \/ Glob
    \/ NextFile
    \/ ReadText
    \/ Substitute
    \/ NoChanges
    \/ WriteOpen
    \/ WriteData
    \/ ReportFixed
    \/ Done

Next ==
    \/ Glob
    \/ NextFile
    \/ ReadText
    \/ ReadFault
    \/ Substitute
    \/ NoChanges
    \/ WriteOpen
    \/ WriteOpenFault
    \/ WriteData
    \/ WriteDataFault
    \/ ReportFixed
    \/ Done
    \/ Rerun

Spec == Init /\ [][Next]_vars

\* the interpreter runs the script to its end unless a fault stops it
LiveSpec == Init /\ [][Next]_vars /\ WF_vars(Step)

(***************************************************************************)
(* Vocabulary of the properties.                                           *)
(***************************************************************************)
RECURSIVE Flatten(_)
Flatten(ps) == IF ps = <<>> THEN <<>> ELSE Head(ps) \o Flatten(Tail(ps))

\* a fragment as it is kept, or with its path data replaced by an icon
Piece(fr, c) ==
    IF c = "keep" THEN Render(fr)
    ELSE IF c = "check" THEN RenderWith(fr, CHECKMARK)
    ELSE RenderWith(fr, ALERT)

Assembled(fs, ch) == Flatten([j \in 1..Len(fs) |-> Piece(fs[j], ch[j])])

Choices(fs, kinds) == [1..Len(fs) -> kinds]

\* the progress lines of the current run
Lines == { out[k] : k \in 1..Len(out) }

ProgressLines == { l \in Lines : l.kind # "done" }

Processed(f) == \E l \in ProgressLines : l.name = f

\* the first run has finished with file f
Settled(f) == f \in glob /\ (run > 1 \/ Processed(f))

\* the script is past line 32 for the current file
AfterSub == pc \in {"cmp", "write", "count"}

HasTrigger(t) == \E word \in TriggerWords : Contains(lower(t), word)

\* the text s with every match of ms rewritten as prefix + icon + suffix
RECURSIVE Rewritten(_, _, _)
Rewritten(s, ms, i) ==
    IF ms = <<>> THEN SubSeq(s, i, Len(s))
    ELSE LET m      == Head(ms)
             prefix == SubSeq(s, m.s, m.g1)
             suffix == SubSeq(s, m.g2 + 1, m.e)
         IN  SubSeq(s, i, m.s - 1) \o prefix
               \o (IF HasTrigger(suffix) THEN ALERT ELSE CHECKMARK) \o suffix
               \o Rewritten(s, Tail(ms), m.e + 1)

(***************************************************************************)
(* C1: a path data value V of a fragment <h2><svg ...><path ... d="V"      *)
(* /></svg> is replaced if and only if its length is strictly greater      *)
(* than 80.  The code replaces a value of exactly 80 characters.           *)
(***************************************************************************)
C1_Threshold ==
    \A f \in glob : Settled(f) =>
        \E ch \in Choices(layout[f], {"keep", "check", "alert"}) :
            /\ disk[f] = Assembled(layout[f], ch)
            /\ \A j \in 1..Len(layout[f]) :
                  layout[f][j].open = H2 =>
                     (ch[j] # "keep" <=> Len(layout[f][j].data) > 80)

(***************************************************************************)
(* C2: the file <h2><svg x="1"><path d="A...A" /></svg><span>Pitfall       *)
(* </span></h2> with more than 80 A is rewritten with the ALERT path, and  *)
(* "Fixed 1 complex icons" is printed for it.                              *)
(***************************************************************************)
IsScenario(f) ==
    /\ Len(layout[f]) = 1
    /\ layout[f][1].open = H2
    /\ layout[f][1].attr = AttrX
    /\ layout[f][1].pattr = PathPlain
    /\ layout[f][1].tail = TailPitfall
    /\ Len(layout[f][1].data) > 80
    /\ \A k \in 1..Len(layout[f][1].data) : layout[f][1].data[k] = "A"

C2_ScenarioAlert ==
    \A f \in glob : (run = 1 /\ Processed(f) /\ IsScenario(f)) =>
        /\ disk[f] = RenderWith(layout[f][1], ALERT)
        /\ [kind |-> "fixed", n |-> 1, name |-> f] \in Lines

(***************************************************************************)
(* C3: after the substitution the content is the original in which every   *)
(* match is prefix + P + suffix, with prefix and suffix as they were and   *)
(* P = ALERT when the lower-cased suffix contains a trigger word,          *)
(* CHECKMARK otherwise; the text outside the matches is unchanged.         *)
(***************************************************************************)
C3_ReplacementRule ==
    AfterSub => content = Rewritten(original, findall(original), 1)

C3_Witness ==
    /\ pc = "cmp"
    /\ Len(findall(original)) = 2
    /\ content # original

(***************************************************************************)
(* C4: a second run after a completed run writes no file and reports       *)
(* "No changes needed" for every file: both icons are shorter than the     *)
(* threshold and the substituted content has no match left.                *)
(***************************************************************************)
C4_Idempotent ==
    /\ Len(CHECKMARK) < MinPathLen
    /\ Len(ALERT) < MinPathLen
    /\ AfterSub => findall(content) = <<>>
    /\ run > 1 =>
          /\ \A f \in Entries : wrote[f] = 0 /\ disk[f] = start[f]
          /\ \A l \in ProgressLines : l.kind = "nochange"
          /\ pc = "done" => \A f \in glob : Processed(f)

C4_Witness ==
    /\ run = 2
    /\ pc = "done"
    /\ \E f \in glob : disk[f] # disk0[f]

(***************************************************************************)
(* C5: a fragment whose svg element is not immediately preceded by <h2>,   *)
(* or whose path data has length <= 80, is unchanged after the run,        *)
(* whatever happens to the other fragments of the file.  The code rewrites *)
(* the fragments whose path data has exactly 80 characters (see C1).       *)
(***************************************************************************)
C5_NonMatchPreserved ==
    \A f \in glob : Settled(f) =>
        \E ch \in Choices(layout[f], {"keep", "check", "alert"}) :
            /\ disk[f] = Assembled(layout[f], ch)
            /\ \A j \in 1..Len(layout[f]) :
                  (layout[f][j].open # H2 \/ Len(layout[f][j].data) <= 80)
                     => ch[j] = "keep"

(***************************************************************************)
(* C6: a file is written if and only if it holds at least one match: a     *)
(* file without a match is never written and gets "No changes needed", a   *)
(* file with a match never gets "No changes needed".                       *)
(***************************************************************************)
C6_NoSpuriousWrites ==
    /\ \A f \in Entries : wrote[f] > 0 => (f \in glob /\ findall(start[f]) # <<>>)
    /\ \A f \in Entries : findall(start[f]) = <<>> => disk[f] = start[f]
    /\ \A l \in ProgressLines :
          /\ l.kind = "nochange" =>
                findall(start[l.name]) = <<>> /\ wrote[l.name] = 0
          /\ l.kind = "fixed" =>
                findall(start[l.name]) # <<>> /\ wrote[l.name] = 1

C6_Witness ==
    /\ pc = "done"
    /\ run = 1
    /\ \E l \in ProgressLines : l.kind = "nochange"
    /\ \E l \in ProgressLines : l.kind = "fixed"

(***************************************************************************)
(* C7: when "Fixed N complex icons in <file>" is printed, N >= 1, N is the *)
(* number of fragments the substitution replaced in that file, and the     *)
(* file holds the fully replaced content.                                  *)
(***************************************************************************)
C7_ReportedCount ==
    \A l \in ProgressLines : l.kind = "fixed" =>
        /\ l.n >= 1
        /\ l.n = sub(start[l.name]).n
        /\ disk[l.name] = sub(start[l.name]).out

C7_Witness ==
    \E l \in ProgressLines : l.kind = "fixed" /\ l.n = 2

(***************************************************************************)
(* C8: a read or write fault stops the run at once: the files processed    *)
(* before keep their outcome, the files not yet reached are unchanged, no  *)
(* progress line is printed for the faulting file or the files after it,   *)
(* and "Done!" is never printed.                                           *)
(***************************************************************************)
C8_Common ==
    /\ pc = "aborted"
    /\ cur \in glob
    /\ \A f \in glob : Processed(f) =>
          IF findall(start[f]) = <<>>
          THEN disk[f] = start[f] /\ wrote[f] = 0
          ELSE disk[f] # start[f] /\ disk[f] = sub(start[f]).out
    /\ \A k \in 1..Len(pending) : disk[pending[k]] = start[pending[k]]
    /\ ~Processed(cur)
    /\ \A k \in 1..Len(pending) : ~Processed(pending[k])
    /\ \A l \in Lines : l.kind # "done"
    /\ ~ENABLED Next

\* as claimed: the faulting file is unchanged whatever the fault
C8_FaultingFileUnchanged ==
    fault # "none" => (C8_Common /\ disk[cur] = start[cur])

\* as amended: a write that fails after the file was opened leaves the file
\* truncated, with at most a beginning of the new content
C8_FailFast ==
    fault # "none" =>
        /\ C8_Common
        /\ fault \in {"read", "open"} => disk[cur] = start[cur]
        /\ fault = "write" =>
              /\ Len(disk[cur]) < Len(content)
              /\ disk[cur] = SubSeq(content, 1, Len(disk[cur]))
              /\ disk[cur] # start[cur]

C8_Witness ==
    /\ fault = "write"
    /\ Len(out) = 1
    /\ out[1].kind = "fixed"

(***************************************************************************)
(* C9: in a run without fault every .html file is processed exactly once,  *)
(* one at a time, with one progress line per file printed before the next  *)
(* file is read, and "Done!" is eventually printed, as the last line,      *)
(* after all the files.                                                    *)
(***************************************************************************)
C9_Order ==
    /\ \A l \in ProgressLines : l.name \in glob
    /\ \A x, y \in 1..Len(out) :
          (out[x].kind # "done" /\ out[y].kind # "done" /\ out[x].name = out[y].name)
             => x = y
    /\ \A x \in 1..Len(out) : out[x].kind = "done" => (x = Len(out) /\ pc = "done")
    /\ pc \in {"read", "sub", "cmp", "write", "count"} =>
          /\ Len(out) + Len(pending) + 1 = Cardinality(glob)
          /\ ~Processed(cur)
    /\ pc = "loop" => Len(out) + Len(pending) = Cardinality(glob)
    /\ pc = "done" =>
          /\ Len(out) = Cardinality(glob) + 1
          /\ out[Len(out)].kind = "done"
          /\ \A f \in glob : Processed(f)

C9_Progress ==
    /\ []C9_Order
    /\ (pc = "start") ~> (pc = "done" \/ fault # "none")

C9_Witness ==
    /\ pc = "done"
    /\ run = 1
    /\ Len(out) = 3

====
